---- MODULE Spec2Model ----
(***************************************************************************)
(* A model of triviality (src/src/main.rs): the scan of extracted crate    *)
(* directories for crates that implement no real code.                     *)
(*                                                                         *)
(* Three specifications share the module:                                  *)
(*   SpecBin  is_bin_non_trivial applied to one file                       *)
(*   SpecLib  is_lib_non_trivial applied to one file                       *)
(*   Spec     main: walk, manifest load, fold into the index, output loop  *)
(*                                                                         *)
(* Option<T> is a sequence of length 0 (None) or 1 (Some).                 *)
(* anyhow::Result<bool> is one of "Ok(true)", "Ok(false)", "Err".          *)
(* A path is a pair <<directory, relative path>>; join builds it.          *)
(* A parsed file is the sequence of the top-level children of its tree.    *)
(***************************************************************************)
EXTENDS Integers, Sequences, FiniteSets, TLC

VARIABLES
    disk,         \* the file system: path -> top-level items of the file
    content,      \* SpecBin/SpecLib: the path handed to the heuristic
    result,       \* SpecBin/SpecLib: what the heuristic returned
    verbose,      \* opt.verbose
    paths,        \* opt.paths
    pathIdx,      \* position of the for loop over opt.paths
    pc,           \* "walk" | "classify" | "done" (Ok(())) | "failed" (Err)
    visited,      \* walk entries the WalkDir iterator has yielded so far
    crate_roots,  \* HashMap<String, BTreeSet<Root>> of the current scan path
    pending,      \* keys of crate_roots the output loop has not yet taken
    output,       \* the lines printed to standard output, in order
    lineStart,    \* history: Len(output) when the current scan path began
    discovered,   \* history: the roots built during the current walk, in order
    classified,   \* history: roots has_non_trivial_code was evaluated on
    reads,        \* history: entry-point paths handed to File::open
    verdicts,     \* history: name -> verdict of the current scan path
    dropped,      \* history: walk errors the iterator chain swallowed
    cause         \* history: why the run failed ("" while it has not)

vars == <<disk, content, result, verbose, paths, pathIdx, pc, visited,
          crate_roots, pending, output, lineStart, discovered, classified,
          reads, verdicts, dropped, cause>>

(***************************************************************************)
(* Bounds                                                                  *)
(***************************************************************************)
MaxItems == 2      \* top-level items of a generated source file
MaxBodyLen == 4    \* tokens of a generated function body
MaxWalk == 4       \* entries one walk yields

(***************************************************************************)
(* Source text                                                             *)
(***************************************************************************)
NL == "\n"
PRINTLN == "println!"
BADBYTE == "0xFF"          \* a byte sequence that is not UTF-8

None == <<>>
Some(x) == <<x>>

\* All sequences over S of length at most n.
SeqUpTo(S, n) == UNION {[1..k -> S] : k \in 0..n}

\* Node::utf8_text: the text of a node, or an error when it is not UTF-8.
utf8_text(text) ==
    IF \E i \in 1..Len(text) : text[i] = BADBYTE THEN "Err" ELSE "Ok"

\* body.chars().filter(|c| *c == '\n').count()
NewlineCount(text) == Cardinality({i \in 1..Len(text) : text[i] = NL})

\* body.contains("println!")
ContainsPrintln(text) == \E i \in 1..Len(text) : text[i] = PRINTLN

\* The newline threshold of a trivial main.
MainNewlineLimit == 2

Item(kind, vis, name, body) ==
    [kind |-> kind, vis |-> vis, name |-> name, body |-> body]

Fn(name, text) == Item("function_item", None, Some(name), Some(text))

(***************************************************************************)
(* The file system                                                         *)
(***************************************************************************)
join(root, path) == <<root, path>>

\* Path::exists
exists(path) == path \in DOMAIN disk

\* File::open(path)?.read_to_end(..) followed by Parser::parse: the top-level
\* children of the tree. tree-sitter builds a tree for any bytes, so the only
\* failure is the open.
CanOpen(path) == path \in DOMAIN disk

(***************************************************************************)
(* is_bin_non_trivial                                                      *)
(***************************************************************************)
TooManyLinesOffByOne(text) == NewlineCount(text) >= MainNewlineLimit

\* body.chars().filter(|c| *c == '\n').count() > 2
TooManyLines(text) == NewlineCount(text) > MainNewlineLimit

\* The loop over the top-level function items of the tree.
RECURSIVE BinScan(_)
BinScan(items) ==
    IF items = <<>> THEN "Ok(false)"
    ELSE LET child == Head(items) IN
        IF child.kind # "function_item" THEN BinScan(Tail(items))
        ELSE IF child.name = None THEN "Err"
        ELSE IF child.name[1] # "main" THEN "Ok(true)"
        ELSE IF child.body = None THEN "Err"
        ELSE IF utf8_text(child.body[1]) = "Err" THEN "Err"
        ELSE IF TooManyLines(child.body[1]) THEN "Ok(true)"
        ELSE IF ~ContainsPrintln(child.body[1]) THEN "Ok(true)"
        ELSE BinScan(Tail(items))

is_bin_non_trivial(path) ==
    IF ~CanOpen(path) THEN "Err" ELSE BinScan(disk[path])

(***************************************************************************)
(* is_lib_non_trivial                                                      *)
(***************************************************************************)
LibKinds ==
    {"function_item", "const_item", "enum_item", "foreign_mod_item",
     "mod_item", "struct_item", "static_item", "trait_item", "type_item",
     "use_declaration"}

IsPubAnyModifier(vis) == vis # None

\* child.children(..).find(visibility_modifier) with text exactly "pub"
IsPub(vis) == vis # None /\ vis[1] = "pub"

\* The loop over the top-level items of the listed kinds.
RECURSIVE LibScan(_)
LibScan(items) ==
    IF items = <<>> THEN "Ok(false)"
    ELSE LET child == Head(items) IN
        IF child.kind \notin LibKinds THEN LibScan(Tail(items))
        ELSE IF IsPub(child.vis) THEN "Ok(true)"
        ELSE LibScan(Tail(items))

is_lib_non_trivial(path) ==
    IF ~CanOpen(path) THEN "Err" ELSE LibScan(disk[path])

(***************************************************************************)
(* Generated source files for SpecBin and SpecLib                          *)
(***************************************************************************)
BodyTexts ==
    SeqUpTo({NL, PRINTLN}, MaxBodyLen) \cup {<<BADBYTE>>, <<PRINTLN, BADBYTE>>}

BinItems ==
    {Item("struct_item", None, Some("S"), None), Fn("helper", <<>>)}
    \cup {Fn("main", t) : t \in BodyTexts}

BinFiles == SeqUpTo(BinItems, MaxItems)

OtherKinds == {"impl_item", "union_item", "extern_crate_declaration"}

Visibilities == {None, Some("pub"), Some("pub(crate)")}

LibItems ==
    {Item(k, v, None, None) : k \in LibKinds \cup OtherKinds, v \in Visibilities}

LibFiles == SeqUpTo(LibItems, MaxItems)

EmptyDisk == [p \in {} |-> <<>>]

ProbePath == join("crate", "src/probe.rs")

OneFile(items) == [p \in {ProbePath} |-> items]

(***************************************************************************)
(* Manifest, Package, Root and their orderings                             *)
(***************************************************************************)
Package(name, version) == [name |-> name, version |-> version]

Manifest(package, lib, bins) == [package |-> package, lib |-> lib, bins |-> bins]

Lib(path) == [path |-> path]

Bin(path) == [path |-> path]

Root(root, manifest) == [root |-> root, manifest |-> manifest]

\* The package names of the model, in the order of String::cmp.
Alphabetical == <<"pkgA", "pkgB">>

Rank(name) == CHOOSE i \in 1..Len(Alphabetical) : Alphabetical[i] = name

NatCmp(a, b) == IF a < b THEN "Less" ELSE IF a > b THEN "Greater" ELSE "Equal"

StrCmp(a, b) == NatCmp(Rank(a), Rank(b))

\* semver::Version::cmp on <<major, minor, patch>> (no pre-release, no build)
VersionCmp(v, w) ==
    IF NatCmp(v[1], w[1]) # "Equal" THEN NatCmp(v[1], w[1])
    ELSE IF NatCmp(v[2], w[2]) # "Equal" THEN NatCmp(v[2], w[2])
    ELSE NatCmp(v[3], w[3])

\* #[derive(PartialOrd, Ord)] on Package: name, then version
PackageCmp(p, q) ==
    IF StrCmp(p.name, q.name) # "Equal" THEN StrCmp(p.name, q.name)
    ELSE VersionCmp(p.version, q.version)

\* #[derive(PartialEq, Eq)] on Manifest: every field
ManifestEq(m, n) == m.package = n.package /\ m.lib = n.lib /\ m.bins = n.bins

\* impl Ord for Manifest: the package only
ManifestCmp(m, n) == PackageCmp(m.package, n.package)

\* impl PartialEq for Root
RootEq(r, s) == ManifestEq(r.manifest, s.manifest)

RootCmpWithDirectory(r, s) ==
    IF ManifestCmp(r.manifest, s.manifest) # "Equal"
    THEN ManifestCmp(r.manifest, s.manifest)
    ELSE IF r.root = s.root THEN "Equal" ELSE "Less"

\* impl Ord for Root
RootCmp(r, s) == ManifestCmp(r.manifest, s.manifest)

BTreeInsertReplacing(set, root) ==
    LET k == Cardinality({i \in 1..Len(set) : RootCmp(set[i], root) = "Less"})
        rest == IF k < Len(set) /\ RootCmp(set[k + 1], root) = "Equal"
                THEN k + 2 ELSE k + 1
    IN  SubSeq(set, 1, k) \o <<root>> \o SubSeq(set, rest, Len(set))

\* BTreeSet<Root>::insert on the set held as its ascending sequence: a value
\* that compares Equal to a member is not inserted and the member stays.
BTreeInsert(set, root) ==
    IF \E i \in 1..Len(set) : RootCmp(set[i], root) = "Equal" THEN set
    ELSE LET k == Cardinality({i \in 1..Len(set) : RootCmp(set[i], root) = "Less"})
         IN  SubSeq(set, 1, k) \o <<root>> \o SubSeq(set, k + 1, Len(set))

\* acc.entry(name).or_default().insert(root)
FoldInsert(acc, root) ==
    LET name == root.manifest.package.name IN
    IF name \in DOMAIN acc
    THEN [acc EXCEPT ![name] = BTreeInsert(@, root)]
    ELSE [n \in DOMAIN acc \cup {name} |->
            IF n = name THEN BTreeInsert(<<>>, root) ELSE acc[n]]

(***************************************************************************)
(* Manifest discovery                                                      *)
(***************************************************************************)
MANIFEST_PATHS == {"Cargo.toml", "cargo.toml"}

is_manifest(file_name) == file_name \in MANIFEST_PATHS

\* Path::parent of a walk entry <<directory, file name>>
Parent(path) == IF Len(path) < 2 THEN None ELSE Some(path[1])

\* toml::from_str::<Manifest>: package.name and package.version are required.
toml_from_str(raw) ==
    IF raw.name = None \/ raw.version = None THEN None
    ELSE Some(Manifest(Package(raw.name[1], raw.version[1]), raw.lib, raw.bins))

\* The closure of map_ok: the root of one manifest file, or an error.
LoadRoot(entry) ==
    IF Parent(entry.path) = None THEN None
    ELSE IF entry.raw = None THEN None
    ELSE IF toml_from_str(entry.raw[1]) = None THEN None
    ELSE Some(Root(Parent(entry.path)[1], toml_from_str(entry.raw[1])[1]))

(***************************************************************************)
(* Entry points of a root                                                  *)
(***************************************************************************)
RECURSIVE DeclaredBins(_, _)
DeclaredBins(root, bins) ==
    IF bins = <<>> THEN <<>>
    ELSE IF Head(bins).path = None THEN DeclaredBins(root, Tail(bins))
    ELSE <<join(root, Head(bins).path[1])>> \o DeclaredBins(root, Tail(bins))

\* Root::bins
bins(r) ==
    IF r.manifest.bins # None /\ r.manifest.bins[1] # <<>>
    THEN DeclaredBins(r.root, r.manifest.bins[1])
    ELSE IF exists(join(r.root, "src/main.rs"))
         THEN <<join(r.root, "src/main.rs")>> ELSE <<>>

\* Root::lib
lib(r) ==
    IF r.manifest.lib # None /\ r.manifest.lib[1].path # None
       /\ exists(join(r.root, r.manifest.lib[1].path[1]))
    THEN Some(join(r.root, r.manifest.lib[1].path[1]))
    ELSE IF exists(join(r.root, "src/lib.rs"))
         THEN Some(join(r.root, "src/lib.rs")) ELSE None

\* The loop over self.bins(): the first result that is not Ok(false).
RECURSIVE AnyBin(_)
AnyBin(ps) ==
    IF ps = <<>> THEN "Ok(false)"
    ELSE IF is_bin_non_trivial(Head(ps)) # "Ok(false)"
         THEN is_bin_non_trivial(Head(ps))
         ELSE AnyBin(Tail(ps))

\* Root::has_non_trivial_code
has_non_trivial_code(r) ==
    IF AnyBin(bins(r)) # "Ok(false)" THEN AnyBin(bins(r))
    ELSE IF lib(r) # None THEN is_lib_non_trivial(lib(r)[1])
    ELSE "Ok(false)"

FirstRootOnly(roots) ==
    IF roots = <<>> THEN "Ok(false)" ELSE has_non_trivial_code(Head(roots))

RECURSIVE ErrorsSkipped(_)
ErrorsSkipped(roots) ==
    IF roots = <<>> THEN "Ok(false)"
    ELSE IF has_non_trivial_code(Head(roots)) = "Ok(true)" THEN "Ok(true)"
         ELSE ErrorsSkipped(Tail(roots))

\* crate_has_non_trivial_code: the first result that is not Ok(false).
RECURSIVE crate_has_non_trivial_code(_)
crate_has_non_trivial_code(roots) ==
    IF roots = <<>> THEN "Ok(false)"
    ELSE IF has_non_trivial_code(Head(roots)) # "Ok(false)"
         THEN has_non_trivial_code(Head(roots))
         ELSE crate_has_non_trivial_code(Tail(roots))

\* History: the paths the loop over self.bins() hands to File::open.
RECURSIVE OpenedBins(_)
OpenedBins(ps) ==
    IF ps = <<>> THEN {}
    ELSE IF is_bin_non_trivial(Head(ps)) # "Ok(false)" THEN {Head(ps)}
         ELSE {Head(ps)} \cup OpenedBins(Tail(ps))

\* History: the paths has_non_trivial_code hands to File::open.
OpenedBy(r) ==
    OpenedBins(bins(r)) \cup
    (IF AnyBin(bins(r)) = "Ok(false)" /\ lib(r) # None THEN {lib(r)[1]} ELSE {})

\* History: the roots crate_has_non_trivial_code evaluates.
RECURSIVE Evaluated(_)
Evaluated(roots) ==
    IF roots = <<>> THEN {}
    ELSE IF has_non_trivial_code(Head(roots)) # "Ok(false)" THEN {Head(roots)}
         ELSE {Head(roots)} \cup Evaluated(Tail(roots))

(***************************************************************************)
(* The scanned trees                                                       *)
(***************************************************************************)
TrivialMain == <<Fn("main", <<NL, PRINTLN, NL>>)>>

HelperMain == <<Fn("main", <<NL, PRINTLN, NL>>), Fn("helper", <<>>)>>

BadBytesMain == <<Fn("main", <<PRINTLN, BADBYTE>>)>>

PrivateLib == <<Item("struct_item", None, None, None)>>

PublicLib == <<Item("struct_item", Some("pub"), None, None)>>

SourceFiles ==
    {<<join("p1/triv", "src/main.rs"), TrivialMain>>,
     <<join("p1/triv", "src/lib.rs"), PrivateLib>>,
     <<join("p1/real", "src/main.rs"), HelperMain>>,
     <<join("p1/next", "src/alt.rs"), PublicLib>>,
     <<join("p1/bad", "src/main.rs"), BadBytesMain>>,
     <<join("p1/libB", "src/lib.rs"), PublicLib>>,
     <<join("p2/lone", "src/lib.rs"), PublicLib>>}

TreeDisk ==
    [p \in {f[1] : f \in SourceFiles} |->
        (CHOOSE f \in SourceFiles : f[1] = p)[2]]

Raw(name, version, l, b) == [name |-> name, version |-> version, lib |-> l, bins |-> b]

\* One entry of the walk: what WalkDir yields for it ("file", "dir", or
\* "error" when the entry cannot be read), and the text of a manifest file
\* (None when the file cannot be opened or is not TOML).
Entry(under, dir, file_name, kind, raw) ==
    [under |-> under, path |-> <<dir, file_name>>, kind |-> kind, raw |-> raw]

V010 == <<0, 1, 0>>
V020 == <<0, 2, 0>>

Tree ==
    {Entry("p1", "p1/triv", "Cargo.toml", "file",
           Some(Raw(Some("pkgA"), Some(V010), None, None))),
     Entry("p1", "p1/triv", "cargo.toml", "file",
           Some(Raw(Some("pkgA"), Some(V010), None,
                    Some(<<Bin(Some("src/cli.rs"))>>)))),
     Entry("p1", "p1/real", "Cargo.toml", "file",
           Some(Raw(Some("pkgA"), Some(V010), None, None))),
     Entry("p1", "p1/next", "Cargo.toml", "file",
           Some(Raw(Some("pkgA"), Some(V020), Some(Lib(Some("src/alt.rs"))),
                    Some(<<Bin(None)>>)))),
     Entry("p1", "p1/bad", "Cargo.toml", "file",
           Some(Raw(Some("pkgB"), Some(V020), Some(Lib(Some("src/gone.rs"))),
                    Some(<<>>)))),
     Entry("p1", "p1/libB", "Cargo.toml", "file",
           Some(Raw(Some("pkgB"), Some(V010), None, None))),
     Entry("p1", "p1/broken", "Cargo.toml", "file",
           Some(Raw(Some("pkgB"), None, None, None))),
     Entry("p1", "p1", "locked", "error", None),
     Entry("p1", "p1/triv", "README.md", "file", None),
     Entry("p1", "p1/vendor", "Cargo.toml", "dir", None),
     Entry("p2", "p2/lone", "Cargo.toml", "file",
           Some(Raw(Some("pkgA"), Some(V010), None, None))),
     Entry("p2", "p2", "locked", "error", None)}

ArgPaths == {<<"p1">>, <<"p1", "p2">>, <<"p2", "p1">>}

NoRoots == [n \in {} |-> <<>>]

(***************************************************************************)
(* main                                                                    *)
(***************************************************************************)
Idle == /\ content = ProbePath
        /\ result = "none"

Init ==
    /\ disk = TreeDisk
    /\ Idle
    /\ verbose \in BOOLEAN
    /\ paths \in ArgPaths
    /\ pathIdx = 1
    /\ pc = "walk"
    /\ visited = {}
    /\ crate_roots = NoRoots
    /\ pending = {}
    /\ output = <<>>
    /\ lineStart = 0
    /\ discovered = <<>>
    /\ classified = {}
    /\ reads = {}
    /\ verdicts = NoRoots
    /\ dropped = {}
    /\ cause = ""

\* The entries the walk of the current scan path can still yield.
Unvisited ==
    {e \in Tree : e.under = paths[pathIdx] /\ e \notin visited}

Walking == pc = "walk" /\ Cardinality(visited) < MaxWalk

\* The walk yields an Err: map_ok passes it on and flatten() yields nothing
\* for it (Result's IntoIterator is empty for Err), so fold_ok never sees it.
WalkError ==
    /\ Walking
    /\ \E e \in Unvisited :
        /\ e.kind = "error"
        /\ visited' = visited \cup {e}
        /\ dropped' = dropped \cup {e}
    /\ UNCHANGED <<disk, content, result, verbose, paths, pathIdx, pc,
                   crate_roots, pending, output, lineStart, discovered,
                   classified, reads, verdicts, cause>>

\* The walk yields an entry that filter_ok rejects.
WalkSkip ==
    /\ Walking
    /\ \E e \in Unvisited :
        /\ e.kind # "error"
        /\ ~(e.kind = "file" /\ is_manifest(e.path[2]))
        /\ visited' = visited \cup {e}
    /\ UNCHANGED <<disk, content, result, verbose, paths, pathIdx, pc,
                   crate_roots, pending, output, lineStart, discovered,
                   classified, reads, verdicts, dropped, cause>>

\* The walk yields a manifest whose root cannot be built: fold_ok stops with
\* the error and main returns it.
WalkLoadFails ==
    /\ Walking
    /\ \E e \in Unvisited :
        /\ e.kind = "file" /\ is_manifest(e.path[2])
        /\ LoadRoot(e) = None
        /\ visited' = visited \cup {e}
    /\ pc' = "failed"
    /\ cause' = "manifest"
    /\ UNCHANGED <<disk, content, result, verbose, paths, pathIdx,
                   crate_roots, pending, output, lineStart, discovered,
                   classified, reads, verdicts, dropped>>

\* The walk yields a manifest; its root is folded into the index.
WalkInsert ==
    /\ Walking
    /\ \E e \in Unvisited :
        /\ e.kind = "file" /\ is_manifest(e.path[2])
        /\ LoadRoot(e) # None
        /\ visited' = visited \cup {e}
        /\ crate_roots' = FoldInsert(crate_roots, LoadRoot(e)[1])
        /\ discovered' = Append(discovered, LoadRoot(e)[1])
    /\ UNCHANGED <<disk, content, result, verbose, paths, pathIdx, pc,
                   pending, output, lineStart, classified, reads, verdicts,
                   dropped, cause>>

\* The walk is exhausted: the output loop takes over the index.
WalkDone ==
    /\ pc = "walk"
    /\ pc' = "classify"
    /\ pending' = DOMAIN crate_roots
    /\ UNCHANGED <<disk, content, result, verbose, paths, pathIdx, visited,
                   crate_roots, output, lineStart, discovered, classified,
                   reads, verdicts, dropped, cause>>

NonTrivialLine(name) == <<"non trivial: ", name>>

TrivialLine(name) == <<name>>

ReportEvenWhenQuiet(out, nonTrivial, name) ==
    IF nonTrivial THEN Append(out, NonTrivialLine(name))
    ELSE Append(out, TrivialLine(name))

\* The body of the output loop: what it prints for one verdict.
Report(out, nonTrivial, name) ==
    IF nonTrivial
    THEN IF verbose THEN Append(out, NonTrivialLine(name)) ELSE out
    ELSE Append(out, TrivialLine(name))

OpenedFor(roots) == UNION {OpenedBy(r) : r \in Evaluated(roots)}

\* One iteration of the output loop, on the key the HashMap yields next.
ClassifyNext ==
    /\ pc = "classify"
    /\ \E name \in pending :
        LET res == crate_has_non_trivial_code(crate_roots[name]) IN
        /\ pending' = pending \ {name}
        /\ classified' = classified \cup Evaluated(crate_roots[name])
        /\ reads' = reads \cup OpenedFor(crate_roots[name])
        /\ IF res = "Err"
           THEN /\ pc' = "failed"
                /\ cause' = "classify"
                /\ UNCHANGED <<output, verdicts>>
           ELSE /\ UNCHANGED <<pc, cause>>
                /\ verdicts' = [n \in DOMAIN verdicts \cup {name} |->
                                  IF n = name THEN res ELSE verdicts[n]]
                /\ output' = Report(output, res = "Ok(true)", name)
    /\ UNCHANGED <<disk, content, result, verbose, paths, pathIdx, visited,
                   crate_roots, lineStart, discovered, dropped>>

\* The output loop is done and opt.paths has another path.
NextPath ==
    /\ pc = "classify"
    /\ pending = {}
    /\ pathIdx < Len(paths)
    /\ pathIdx' = pathIdx + 1
    /\ pc' = "walk"
    /\ visited' = {}
    /\ crate_roots' = NoRoots
    /\ lineStart' = Len(output)
    /\ discovered' = <<>>
    /\ classified' = {}
    /\ reads' = {}
    /\ verdicts' = NoRoots
    /\ UNCHANGED <<disk, content, result, verbose, paths, pending, output,
                   dropped, cause>>

\* The output loop is done for the last path: main returns Ok(()).
Finish ==
    /\ pc = "classify"
    /\ pending = {}
    /\ pathIdx = Len(paths)
    /\ pc' = "done"
    /\ UNCHANGED <<disk, content, result, verbose, paths, pathIdx, visited,
                   crate_roots, pending, output, lineStart, discovered,
                   classified, reads, verdicts, dropped, cause>>

Next ==
    \/ WalkError
    \/ WalkSkip
    \/ WalkLoadFails
    \/ WalkInsert
    \/ WalkDone
    \/ ClassifyNext
    \/ NextPath
    \/ Finish

Spec == Init /\ [][Next]_vars

(***************************************************************************)
(* The heuristics on their own                                             *)
(***************************************************************************)
Parked ==
    /\ verbose = FALSE
    /\ paths = <<"p1">>
    /\ pathIdx = 1
    /\ pc = "heuristic"
    /\ visited = {}
    /\ crate_roots = NoRoots
    /\ pending = {}
    /\ output = <<>>
    /\ lineStart = 0
    /\ discovered = <<>>
    /\ classified = {}
    /\ reads = {}
    /\ verdicts = NoRoots
    /\ dropped = {}
    /\ cause = ""

InitBin ==
    /\ disk \in {EmptyDisk} \cup {OneFile(f) : f \in BinFiles}
    /\ Idle
    /\ Parked

ApplyBin ==
    /\ pc = "heuristic"
    /\ result = "none"
    /\ result' = is_bin_non_trivial(content)
    /\ UNCHANGED <<disk, content, verbose, paths, pathIdx, pc, visited,
                   crate_roots, pending, output, lineStart, discovered,
                   classified, reads, verdicts, dropped, cause>>

NextBin == ApplyBin

SpecBin == InitBin /\ [][NextBin]_vars

InitLib ==
    /\ disk \in {EmptyDisk} \cup {OneFile(f) : f \in LibFiles}
    /\ Idle
    /\ Parked

ApplyLib ==
    /\ pc = "heuristic"
    /\ result = "none"
    /\ result' = is_lib_non_trivial(content)
    /\ UNCHANGED <<disk, content, verbose, paths, pathIdx, pc, visited,
                   crate_roots, pending, output, lineStart, discovered,
                   classified, reads, verdicts, dropped, cause>>

NextLib == ApplyLib

SpecLib == InitLib /\ [][NextLib]_vars

(***************************************************************************)
(* Properties                                                              *)
(***************************************************************************)
Members(name) == {crate_roots[name][k] : k \in 1..Len(crate_roots[name])}

NameOf(r) == r.manifest.package.name

AllNames == {Alphabetical[i] : i \in 1..Len(Alphabetical)}

\* The walk position of the first discovered root that compares Equal to r.
FirstLike(r) ==
    CHOOSE i \in 1..Len(discovered) :
        /\ RootCmp(discovered[i], r) = "Equal"
        /\ \A h \in 1..(i - 1) : RootCmp(discovered[h], r) # "Equal"

\* The root at walk position j compared Equal to an earlier one.
Discarded(j) == \E i \in 1..(j - 1) : RootCmp(discovered[i], discovered[j]) = "Equal"

\* C1 as stated: a package that got a verdict is non-trivial exactly when
\* some root discovered for its name is non-trivial.
C1_AnyDiscoveredRoot ==
    \A n \in DOMAIN verdicts :
        (verdicts[n] = "Ok(true)") <=>
            \E i \in 1..Len(discovered) :
                /\ NameOf(discovered[i]) = n
                /\ has_non_trivial_code(discovered[i]) = "Ok(true)"

\* C1 amended: a package that got a verdict is non-trivial exactly when some
\* root retained in the group of its name is non-trivial, wherever that root
\* stands in the group.
C1_AnyRetainedRoot ==
    \A n \in DOMAIN verdicts :
        (verdicts[n] = "Ok(true)") <=>
            \E r \in Members(n) : has_non_trivial_code(r) = "Ok(true)"

C1_Witness ==
    \E n \in DOMAIN verdicts :
        /\ verdicts[n] = "Ok(true)"
        /\ Len(crate_roots[n]) >= 2
        /\ has_non_trivial_code(crate_roots[n][1]) = "Ok(false)"

FunctionItems(items) == {i \in 1..Len(items) : items[i].kind = "function_item"}

IsTrivialMain(c) ==
    /\ c.name = Some("main")
    /\ c.body # None
    /\ utf8_text(c.body[1]) = "Ok"
    /\ NewlineCount(c.body[1]) <= 2
    /\ ContainsPrintln(c.body[1])

\* C2: the binary heuristic answers "trivial" exactly for a readable file
\* in which every top-level function is a main whose body has at most 2
\* newlines and contains println!; any other answer without an error is
\* "non-trivial".
C2_BinHeuristic ==
    result # "none" =>
        /\ result \in {"Ok(true)", "Ok(false)", "Err"}
        /\ (result = "Ok(false)") <=>
              /\ CanOpen(content)
              /\ \A i \in FunctionItems(disk[content]) : IsTrivialMain(disk[content][i])
        /\ (CanOpen(content) /\ FunctionItems(disk[content]) = {}) => result = "Ok(false)"
        /\ (/\ CanOpen(content)
            /\ \E i \in FunctionItems(disk[content]) :
                  /\ disk[content][i].name # Some("main")
                  /\ \A h \in FunctionItems(disk[content]) :
                        h < i => IsTrivialMain(disk[content][h]))
           => result = "Ok(true)"

C2_Witness ==
    /\ result = "Ok(true)"
    /\ CanOpen(content)
    /\ Len(disk[content]) = 1
    /\ disk[content][1].name = Some("main")
    /\ NewlineCount(disk[content][1].body[1]) = 3
    /\ ContainsPrintln(disk[content][1].body[1])

\* C3: the library heuristic answers "non-trivial" exactly for a readable
\* file with a top-level item of a listed kind whose visibility modifier
\* reads "pub"; no modifier, a restricted modifier, or another kind of item
\* never counts.
C3_LibHeuristic ==
    (result # "none" /\ CanOpen(content)) =>
        /\ result \in {"Ok(true)", "Ok(false)"}
        /\ (result = "Ok(true)") <=>
              \E i \in 1..Len(disk[content]) :
                  /\ disk[content][i].kind \in LibKinds
                  /\ disk[content][i].vis = Some("pub")

C3_Witness ==
    /\ result = "Ok(false)"
    /\ CanOpen(content)
    /\ \E i \in 1..Len(disk[content]) :
          /\ disk[content][i].kind \in LibKinds
          /\ disk[content][i].vis = Some("pub(crate)")
    /\ \E i \in 1..Len(disk[content]) :
          /\ disk[content][i].kind \notin LibKinds
          /\ disk[content][i].vis = Some("pub")

\* C4 as stated: two discovered roots of one name whose manifests differ in
\* any field are both members of the group of that name.
C4_DifferentManifestsBothKept ==
    \A i, j \in 1..Len(discovered) :
        (/\ NameOf(discovered[i]) = NameOf(discovered[j])
         /\ ~RootEq(discovered[i], discovered[j]))
        => /\ discovered[i] \in Members(NameOf(discovered[i]))
           /\ discovered[j] \in Members(NameOf(discovered[j]))

\* C5: two discovered roots with identical manifests are held as one member
\* of the group of their name, whatever their directories, and no group has
\* two members with identical manifests.
C5_IdenticalManifestsCollapse ==
    /\ \A i, j \in 1..Len(discovered) :
          RootEq(discovered[i], discovered[j]) =>
              Cardinality({r \in Members(NameOf(discovered[i])) :
                              RootCmp(r, discovered[i]) = "Equal"
                              \/ RootCmp(r, discovered[j]) = "Equal"}) = 1
    /\ \A n \in DOMAIN crate_roots :
          \A k, l \in 1..Len(crate_roots[n]) :
              RootEq(crate_roots[n][k], crate_roots[n][l]) => k = l

C5_Witness ==
    \E i, j \in 1..Len(discovered) :
        /\ i < j
        /\ RootEq(discovered[i], discovered[j])
        /\ discovered[i].root # discovered[j].root
        /\ Len(crate_roots[NameOf(discovered[i])]) = 1

EntryPoints(r) ==
    {bins(r)[k] : k \in 1..Len(bins(r))} \cup
    (IF lib(r) = None THEN {} ELSE {lib(r)[1]})

\* C6 as stated: every path bins() or lib() returns for a root of the index
\* is a file that exists.
C6_EntryPointsExist ==
    \A n \in DOMAIN crate_roots :
        \A r \in Members(n) : \A p \in EntryPoints(r) : exists(p)

LinesOf(line) == {k \in (lineStart + 1)..Len(output) : output[k] = line}

\* C7: within one scan path a name has at most one line; the bare name is
\* printed exactly for a trivial verdict, "non trivial: <name>" exactly for
\* a non-trivial verdict in verbose mode, and nothing else is printed.
C7_OneLinePerVerdict ==
    /\ \A n \in AllNames :
        /\ Cardinality(LinesOf(TrivialLine(n)) \cup LinesOf(NonTrivialLine(n))) <= 1
        /\ (LinesOf(TrivialLine(n)) # {}) <=>
              (n \in DOMAIN verdicts /\ verdicts[n] = "Ok(false)")
        /\ (LinesOf(NonTrivialLine(n)) # {}) <=>
              (n \in DOMAIN verdicts /\ verdicts[n] = "Ok(true)" /\ verbose)
    /\ \A k \in (lineStart + 1)..Len(output) :
          \E n \in AllNames : output[k] \in {TrivialLine(n), NonTrivialLine(n)}

C7_Witness ==
    /\ pc = "done"
    /\ ~verbose
    /\ \E n \in DOMAIN verdicts :
          /\ verdicts[n] = "Ok(true)"
          /\ Len(crate_roots[n]) >= 2
    /\ Len(output) = lineStart

\* C8 as stated: the run ends successfully only when no error occurred,
\* the errors of the walk included.
C8_SuccessMeansNoError == pc = "done" => dropped = {}

\* C9 as stated: a scan path that fails has emitted no verdict.
C9_NoPartialResults == pc = "failed" => Len(output) = lineStart

ErrorBeforeVerdict(roots) ==
    \E i \in 1..Len(roots) :
        /\ has_non_trivial_code(roots[i]) = "Err"
        /\ \A h \in 1..(i - 1) : has_non_trivial_code(roots[h]) = "Ok(false)"

\* C9 amended: a scan path whose discovery fails has emitted no verdict; a
\* scan path whose classification fails has emitted verdicts only for the
\* names taken before the failing one, and none for a name whose roots run
\* into the error or for a name not yet taken; a scan path that completes
\* has a verdict for every name of its index.
C9_PartialOnlyBeforeFailure ==
    /\ (pc = "failed" /\ cause = "manifest") =>
          /\ Len(output) = lineStart
          /\ verdicts = NoRoots
    /\ (pc = "failed" /\ cause = "classify") =>
          \E n \in DOMAIN crate_roots :
              /\ n \notin DOMAIN verdicts
              /\ n \notin pending
              /\ ErrorBeforeVerdict(crate_roots[n])
    /\ \A n \in DOMAIN verdicts :
          /\ n \in DOMAIN crate_roots
          /\ n \notin pending
          /\ ~ErrorBeforeVerdict(crate_roots[n])
    /\ ((pc = "classify" /\ pending = {}) \/ pc = "done") =>
          DOMAIN verdicts = DOMAIN crate_roots

C9_Witness ==
    /\ pc = "failed"
    /\ cause = "classify"
    /\ Len(output) > lineStart
    /\ pending = {}

\* C10 as stated: no file under the directory of a discarded root is read.
C10_DiscardedDirectoryNeverRead ==
    \A j \in 1..Len(discovered) :
        Discarded(j) => \A p \in reads : p[1] # discovered[j].root

\* C10 amended: every member of a group is the first discovered root among
\* those comparing Equal to it, so a later one leaves the group as it was;
\* only members are evaluated, and every file read is an entry point
\* resolved from a member.
C10_FirstRootRetained ==
    /\ \A n \in DOMAIN crate_roots :
          \A r \in Members(n) : r = discovered[FirstLike(r)]
    /\ \A j \in 1..Len(discovered) :
          \E r \in Members(NameOf(discovered[j])) :
              RootCmp(r, discovered[j]) = "Equal"
    /\ \A r \in classified : r \in Members(NameOf(r))
    /\ \A p \in reads :
          \E n \in DOMAIN crate_roots : \E r \in Members(n) : p \in EntryPoints(r)

C10_Witness ==
    /\ pc = "done"
    /\ \E j \in 1..Len(discovered) :
          /\ Discarded(j)
          /\ ~RootEq(discovered[j], discovered[FirstLike(discovered[j])])
          /\ discovered[FirstLike(discovered[j])] \in classified

====
